---- MODULE Spec2Model ----
(***************************************************************************)
(* Forecasto: session-scoped editing, conflict detection and the record    *)
(* version history.  State is the persisted state (records,                *)
(* record_versions, sessions, session_operations, session_record_locks,    *)
(* session_messages); every action is one service call, run inside the     *)
(* request transaction of database.get_db.                                 *)
(***************************************************************************)
EXTENDS Integers, Sequences, FiniteSets, TLC

\* ---------------------------------------------------------------- bounds
MaxClock == 3       \* number of record-mutating calls in a behaviour
MaxOps == 2         \* operations logged per session
MaxMessages == 4    \* messages per session

\* ------------------------------------------------------------ value sets
Recs == {"r1", "r2"}
Sessions == {"s1", "s2"}
Users == {"u1", "u2"}
Accounts == {"ACME", "BETA"}
Amounts == {1000, 2000}                 \* Numeric(15, 2), held in cents
AmountStrings == {"10", "10.00", "20.00"}
VALID_AREAS == {"budget", "orders"}

NoUser == "none"

\* Decimal(s) as stored in a Numeric(15, 2) column
ParseAmount(s) ==
    CASE s = "10" -> 1000
      [] s = "10.00" -> 1000
      [] s = "20.00" -> 2000

\* str(record.amount) of a Numeric(15, 2) value
FormatAmount(n) ==
    CASE n = 1000 -> "10.00"
      [] n = 2000 -> "20.00"

\* ------------------------------------------------------------- variables
VARIABLES
    records,      \* records table, by id
    versions,     \* record_versions rows of each record, in insertion order
    sessions,     \* sessions table, by id
    operations,   \* session_operations of each session, by sequence
    locks,        \* session_record_locks, by (session, record)
    messages,     \* number of session_messages of each session
    clock,        \* datetime.utcnow(), as a logical clock
    inflight,     \* requests between their read and their write, by session
                  \* (commit) or by user (update)
    touched,      \* history: who changed a record since a lock was anchored
    response      \* the result of the last call

vars == <<records, versions, sessions, operations, locks, messages, clock,
          inflight, touched, response>>

\* ---------------------------------------------------------------- rows
AbsentRecord ==
    [state |-> "absent", version |-> 0, account |-> "ACME", amount |-> 1000,
     area |-> "budget", deleted_at |-> 0, updated_by |-> NoUser]

NoSession ==
    [status |-> "none", user_id |-> NoUser, changes_count |-> 0,
     changes_summary |-> [created |-> 0, updated |-> 0, deleted |-> 0,
                          transferred |-> 0]]

NoLock == [present |-> FALSE, draft_snapshot |-> << >>, base_version |-> 0]

Requests == Sessions \cup Users

Idle == [stage |-> "idle", user |-> NoUser, seen |-> [r \in Recs |-> 0]]

Response(op, sid, status, conflicts) ==
    [op |-> op, sid |-> sid, status |-> status, conflicts |-> conflicts]

RecordResponse(op) == Response(op, "-", "OK", {})

\* ------------------------------------------------------------ snapshots
RecordToSnapshot(rec) ==
    [area |-> rec.area, account |-> rec.account,
     amount |-> FormatAmount(rec.amount), deleted_at |-> rec.deleted_at]

\* mutant: the amount of the snapshot is not applied
RecordApplySnapshotNoAmount(rec, snapshot) ==
    [rec EXCEPT
        !.area = IF "area" \in DOMAIN snapshot THEN snapshot.area ELSE @,
        !.account = IF "account" \in DOMAIN snapshot THEN snapshot.account ELSE @,
        !.deleted_at = IF "deleted_at" \in DOMAIN snapshot
                       THEN snapshot.deleted_at ELSE 0]

RecordApplySnapshot(rec, snapshot) ==
    [rec EXCEPT
        !.area = IF "area" \in DOMAIN snapshot THEN snapshot.area ELSE @,
        !.account = IF "account" \in DOMAIN snapshot THEN snapshot.account ELSE @,
        !.amount = IF "amount" \in DOMAIN snapshot
                   THEN ParseAmount(snapshot.amount) ELSE @,
        !.deleted_at = IF "deleted_at" \in DOMAIN snapshot
                       THEN snapshot.deleted_at ELSE 0]

CreateVersion(rec, user_id, change_type, now) ==
    [version |-> rec.version, snapshot |-> RecordToSnapshot(rec),
     changed_by |-> user_id, change_type |-> change_type, changed_at |-> now]

\* ------------------------------------------------------------------ init
Init ==
    /\ records = [r \in Recs |-> AbsentRecord]
    /\ versions = [r \in Recs |-> << >>]
    /\ sessions = [s \in Sessions |-> NoSession]
    /\ operations = [s \in Sessions |-> << >>]
    /\ locks = [s \in Sessions |-> [r \in Recs |-> NoLock]]
    /\ messages = [s \in Sessions |-> 0]
    /\ clock = 0
    /\ inflight = [q \in Requests |-> Idle]
    /\ touched = [s \in Sessions |-> [r \in Recs |-> "clean"]]
    /\ response = Response("init", "-", "OK", {})

\* a fresh uuid: ids are never reused, so the rows are taken in order
RecOrder == [r1 |-> 1, r2 |-> 2]
SessionOrder == [s1 |-> 1, s2 |-> 2]

FreshRecord(r) ==
    /\ records[r].state = "absent"
    /\ \A q \in Recs : records[q].state = "absent" => RecOrder[r] <= RecOrder[q]

FreshSession(s) ==
    /\ sessions[s].status = "none"
    /\ \A q \in Sessions :
           sessions[q].status = "none" => SessionOrder[s] <= SessionOrder[q]

\* history: a committed change of record r by user u, made outside
\* session `by` ("-" for a direct RecordService call)
Touch(rs, u, by) ==
    [s \in Sessions |-> [r \in Recs |->
        IF r \in rs /\ locks[s][r].present /\ s # by
        THEN IF by = "-" /\ u = sessions[s].user_id /\ touched[s][r] # "other"
             THEN "owner" ELSE "other"
        ELSE touched[s][r]]]

\* ------------------------------------------------------- RecordService
CreateInputs ==
    {[area |-> "budget", account |-> "ACME", amount |-> 1000],
     [area |-> "orders", account |-> "BETA", amount |-> 2000]}

\* RecordUpdate.model_dump(exclude_unset=True)
UpdateInputs == {[account |-> "BETA"], [account |-> "ACME", amount |-> 2000]}

\* mutant: the record is inserted without its create entry
CreateRecordUnversioned(r, data, user) ==
    /\ FreshRecord(r)
    /\ clock < MaxClock
    /\ records' = [records EXCEPT ![r] =
          [state |-> "live", version |-> 1, account |-> data.account,
           amount |-> data.amount, area |-> data.area,
           deleted_at |-> 0, updated_by |-> user]]
    /\ clock' = clock + 1
    /\ response' = RecordResponse("create_record")
    /\ UNCHANGED <<versions, sessions, operations, locks, messages, inflight,
                   touched>>

CreateRecord(r, data, user) ==
    /\ FreshRecord(r)
    /\ clock < MaxClock
    /\ LET rec == [state |-> "live", version |-> 1, account |-> data.account,
                   amount |-> data.amount, area |-> data.area,
                   deleted_at |-> 0, updated_by |-> user]
       IN /\ records' = [records EXCEPT ![r] = rec]
          /\ versions' = [versions EXCEPT
                ![r] = Append(@, CreateVersion(rec, user, "create", clock + 1))]
    /\ clock' = clock + 1
    /\ response' = RecordResponse("create_record")
    /\ UNCHANGED <<sessions, operations, locks, messages, inflight, touched>>

\* mutant: record_versions without its unique constraint
UniqueVersionOff(r, v) == TRUE

\* uq_record_version: no row of record r carries version v yet
UniqueVersion(r, v) ==
    \A i \in DOMAIN versions[r] : versions[r][i].version # v

\* mutant: the new row takes the place of the record's latest row
MutateInPlace(r, rec, user, change_type) ==
    /\ records' = [records EXCEPT ![r] = rec]
    /\ versions' = [versions EXCEPT
          ![r] = IF @ = << >>
                 THEN <<CreateVersion(rec, user, change_type, clock + 1)>>
                 ELSE [@ EXCEPT ![Len(@)] =
                          CreateVersion(rec, user, change_type, clock + 1)]]
    /\ clock' = clock + 1
    /\ touched' = Touch({r}, user, "-")
    /\ UNCHANGED <<sessions, operations, locks, messages, inflight>>

\* the tail every versioned RecordService mutation shares
Mutate(r, rec, user, change_type) ==
    /\ UniqueVersion(r, rec.version)
    /\ records' = [records EXCEPT ![r] = rec]
    /\ versions' = [versions EXCEPT
          ![r] = Append(@, CreateVersion(rec, user, change_type, clock + 1))]
    /\ clock' = clock + 1
    /\ touched' = Touch({r}, user, "-")
    /\ UNCHANGED <<sessions, operations, locks, messages, inflight>>

UpdateRecord(r, data, user) ==
    /\ records[r].state = "live"
    /\ clock < MaxClock
    /\ LET rec == [records[r] EXCEPT
                     !.account = IF "account" \in DOMAIN data
                                 THEN data.account ELSE @,
                     !.amount = IF "amount" \in DOMAIN data
                                THEN data.amount ELSE @,
                     !.updated_by = user,
                     !.version = @ + 1]
       IN Mutate(r, rec, user, "update")
    /\ response' = RecordResponse("update_record")

DeleteRecord(r, user) ==
    /\ records[r].state = "live"
    /\ clock < MaxClock
    /\ LET rec == [records[r] EXCEPT !.deleted_at = clock + 1,
                                     !.version = @ + 1]
       IN Mutate(r, rec, user, "delete")
    /\ response' = RecordResponse("delete_record")

TransferRecord(r, to_area, user) ==
    /\ records[r].state = "live"
    /\ clock < MaxClock
    /\ to_area \in VALID_AREAS
    /\ records[r].area # to_area
    /\ LET rec == [records[r] EXCEPT !.area = to_area,
                                     !.updated_by = user,
                                     !.version = @ + 1]
       IN Mutate(r, rec, user, "transfer")
    /\ response' = RecordResponse("transfer_record")

\* the result of restore_version on record r; before is history: the
\* record as the call found it
RestoreResponse(r, version_number, status) ==
    [op |-> "restore_version", sid |-> "-", status |-> status,
     conflicts |-> {}, record_id |-> r, version_number |-> version_number,
     before |-> records[r]]

RestoreVersion(r, version_number, user) ==
    /\ records[r].state = "live"
    /\ \/ /\ \A i \in DOMAIN versions[r] :
                versions[r][i].version # version_number
          /\ response' = RestoreResponse(r, version_number, "NOT_FOUND")
          /\ UNCHANGED <<records, versions, sessions, operations, locks,
                         messages, clock, inflight, touched>>
       \/ /\ clock < MaxClock
          /\ \E i \in DOMAIN versions[r] :
                /\ versions[r][i].version = version_number
                /\ LET rec == [RecordApplySnapshot(records[r],
                                                   versions[r][i].snapshot)
                                EXCEPT !.updated_by = user, !.version = @ + 1]
                   IN Mutate(r, rec, user, "restore")
          /\ response' = RestoreResponse(r, version_number, "OK")

ClearHistory ==
    /\ \E r \in Recs : versions[r] # << >>
    /\ versions' = [r \in Recs |-> << >>]
    /\ response' = RecordResponse("clear_history")
    /\ UNCHANGED <<records, sessions, operations, locks, messages, clock,
                   inflight, touched>>

\* mutant: the rows changed at the marker's time count as changed after it
AfterInclusive(r, t) ==
    {i \in DOMAIN versions[r] : versions[r][i].changed_at >= t}

\* rows of record r changed after / not after time t
After(r, t) == {i \in DOMAIN versions[r] : versions[r][i].changed_at > t}
UpTo(r, t) == {i \in DOMAIN versions[r] : versions[r][i].changed_at <= t}
\* mutant: the oldest of the rows is taken
LatestOldest(r, idx) ==
    CHOOSE i \in idx : \A j \in idx :
        versions[r][i].changed_at <= versions[r][j].changed_at

Latest(r, idx) ==
    CHOOSE i \in idx : \A j \in idx :
        versions[r][j].changed_at <= versions[r][i].changed_at
Earliest(r) ==
    CHOOSE i \in DOMAIN versions[r] : \A j \in DOMAIN versions[r] :
        versions[r][i].changed_at <= versions[r][j].changed_at

\* mutant: a record without a row at or before t is always left as it is
RollbackRecordKeep(r, t, user, now) ==
    IF UpTo(r, t) # {}
    THEN [RecordApplySnapshot(records[r],
                              versions[r][Latest(r, UpTo(r, t))].snapshot)
            EXCEPT !.updated_by = user, !.version = @ + 1]
    ELSE records[r]

\* the result of rollback_to_version: the restored records; changed_at is
\* history, the time of the target version
RollbackResponse(t, restored) ==
    [op |-> "rollback_to_version", sid |-> "-", status |-> "OK",
     conflicts |-> {}, changed_at |-> t, restored |-> restored]

\* mutant: a record without a row at or before t is always deleted
RollbackRecordDelete(r, t, user, now) ==
    IF UpTo(r, t) # {}
    THEN [RecordApplySnapshot(records[r],
                              versions[r][Latest(r, UpTo(r, t))].snapshot)
            EXCEPT !.updated_by = user, !.version = @ + 1]
    ELSE [records[r] EXCEPT !.deleted_at = now, !.version = @ + 1]

\* what rollback_to_version does to one record that has rows after t
RollbackRecord(r, t, user, now) ==
    IF UpTo(r, t) # {}
    THEN [RecordApplySnapshot(records[r],
                              versions[r][Latest(r, UpTo(r, t))].snapshot)
            EXCEPT !.updated_by = user, !.version = @ + 1]
    ELSE IF /\ versions[r][Earliest(r)].change_type = "create"
            /\ versions[r][Earliest(r)].changed_at > t
         THEN [records[r] EXCEPT !.deleted_at = now, !.version = @ + 1]
         ELSE records[r]

RollbackToVersion(r0, i0, user) ==
    /\ i0 \in DOMAIN versions[r0]
    /\ clock < MaxClock
    /\ LET t == versions[r0][i0].changed_at
           affected == {r \in Recs : records[r].state = "live" /\ After(r, t) # {}}
           new == [r \in Recs |->
                    IF r \in affected
                    THEN RollbackRecord(r, t, user, clock + 1) ELSE records[r]]
           restored == {r \in affected : new[r] # records[r]}
       IN /\ records' = new
          /\ versions' = [r \in Recs |->
                IF r \in restored
                THEN Append(versions[r],
                            CreateVersion(new[r], user, "rollback", clock + 1))
                ELSE versions[r]]
          /\ touched' = Touch(restored, user, "-")
          /\ response' = RollbackResponse(t, restored)
    /\ clock' = clock + 1
    /\ UNCHANGED <<sessions, operations, locks, messages, inflight>>

\* ------------------------------------------------------ SessionService
\* record.date_cashflow.isoformat(): the date of a record, as a string
IsoDate == "2026-01-15"

SessionRecordToSnapshot(rec) ==
    [area |-> rec.area, account |-> rec.account,
     amount |-> FormatAmount(rec.amount), date_cashflow |-> IsoDate]

\* mutant: the version key of a snapshot is applied like any other
SessionApplySnapshotAll(rec, snapshot) ==
    [rec EXCEPT
        !.area = IF "area" \in DOMAIN snapshot THEN snapshot.area ELSE @,
        !.account = IF "account" \in DOMAIN snapshot THEN snapshot.account ELSE @,
        !.amount = IF "amount" \in DOMAIN snapshot
                   THEN ParseAmount(snapshot.amount) ELSE @,
        !.version = IF "version" \in DOMAIN snapshot THEN snapshot.version ELSE @]

\* setattr for every key the record has, except id, workspace_id, version
SessionApplySnapshot(rec, snapshot) ==
    [rec EXCEPT
        !.area = IF "area" \in DOMAIN snapshot THEN snapshot.area ELSE @,
        !.account = IF "account" \in DOMAIN snapshot THEN snapshot.account ELSE @,
        !.amount = IF "amount" \in DOMAIN snapshot
                   THEN ParseAmount(snapshot.amount) ELSE @]

CreateSession(s, user) ==
    /\ FreshSession(s)
    /\ sessions' = [sessions EXCEPT ![s] = [NoSession EXCEPT
                        !.status = "active", !.user_id = user]]
    /\ messages' = [messages EXCEPT ![s] = 1]
    /\ response' = Response("create_session", s, "OK", {})
    /\ UNCHANGED <<records, versions, operations, locks, clock, inflight,
                   touched>>

NotActive(op, s) ==
    /\ sessions[s].status \in {"committed", "discarded"}
    /\ response' = Response(op, s, "SESSION_NOT_ACTIVE", {})
    /\ UNCHANGED <<records, versions, sessions, operations, locks, messages,
                   clock, inflight, touched>>

\* mutant: add_message without its status check
AddMessageUnchecked(s) ==
    /\ sessions[s].status # "none"
    /\ messages[s] < MaxMessages
    /\ messages' = [messages EXCEPT ![s] = @ + 1]
    /\ response' = Response("add_message", s, "OK", {})
    /\ UNCHANGED <<records, versions, sessions, operations, locks, clock,
                   inflight, touched>>

AddMessage(s) ==
    \/ NotActive("add_message", s)
    \/ /\ sessions[s].status = "active"
       /\ messages[s] < MaxMessages
       /\ messages' = [messages EXCEPT ![s] = @ + 1]
       /\ response' = Response("add_message", s, "OK", {})
       /\ UNCHANGED <<records, versions, sessions, operations, locks, clock,
                      inflight, touched>>

\* draft snapshots a session may hold for a record
DraftInputs ==
    {[account |-> "BETA"], [amount |-> "10"],
     [account |-> "ACME", amount |-> "20.00", version |-> 0]}

\* a session_record_locks row is inserted for (session, record), anchored
\* to the version the record has at that moment
AddLock(s, r, draft) ==
    /\ sessions[s].status = "active"
    /\ records[r].state = "live"
    /\ ~locks[s][r].present
    /\ locks' = [locks EXCEPT ![s][r] =
                    [present |-> TRUE, draft_snapshot |-> draft,
                     base_version |-> records[r].version]]
    /\ touched' = [touched EXCEPT ![s][r] = "clean"]
    /\ response' = Response("add_lock", s, "OK", {})
    /\ UNCHANGED <<records, versions, sessions, operations, messages, clock,
                   inflight>>

OpTypes == {"create", "update", "delete", "transfer"}
SummaryKey ==
    [create |-> "created", update |-> "updated", delete |-> "deleted",
     transfer |-> "transferred"]

\* before/after snapshot pairs handed to add_operation; << >> is None
OpInputs ==
    {[before_snapshot |-> << >>, after_snapshot |-> [account |-> "BETA"]],
     [before_snapshot |-> [account |-> "ACME"],
      after_snapshot |-> [account |-> "BETA"]],
     [before_snapshot |-> [amount |-> "10.00", version |-> 0],
      after_snapshot |-> [amount |-> "20.00"]]}

\* the operation of the session with the highest sequence
LastOp(s) ==
    CHOOSE op \in {operations[s][i] : i \in DOMAIN operations[s]} :
        \A i \in DOMAIN operations[s] : operations[s][i].sequence <= op.sequence

\* mutant: the sequence after the last leaves a gap
NextSequenceGap(s) ==
    IF operations[s] = << >> THEN 1 ELSE LastOp(s).sequence + 2

NextSequence(s) ==
    IF operations[s] = << >> THEN 1 ELSE LastOp(s).sequence + 1

\* the row add_operation inserts and the counters it raises
LogOperation(s, operation_type, r, in) ==
    /\ operations' = [operations EXCEPT ![s] = Append(@,
          [sequence |-> NextSequence(s), operation_type |-> operation_type,
           record_id |-> r, before_snapshot |-> in.before_snapshot,
           after_snapshot |-> in.after_snapshot, is_undone |-> FALSE])]
    /\ sessions' = [sessions EXCEPT
          ![s].changes_summary[SummaryKey[operation_type]] = @ + 1,
          ![s].changes_count = @ + 1]

AddOperation(s, operation_type, r, in) ==
    \/ NotActive("add_operation", s)
    \/ /\ sessions[s].status = "active"
       /\ records[r].state = "live"
       /\ Len(operations[s]) < MaxOps
       /\ LogOperation(s, operation_type, r, in)
       /\ response' = Response("add_operation", s, "OK", {})
       /\ UNCHANGED <<records, versions, locks, messages, clock, inflight,
                      touched>>

NotUndone(s) == {i \in DOMAIN operations[s] : ~operations[s][i].is_undone}
Undone(s) == {i \in DOMAIN operations[s] : operations[s][i].is_undone}
Max(S) == CHOOSE i \in S : \A j \in S : j <= i
\* mutant: the newest of the set
MinNewest(S) == CHOOSE i \in S : \A j \in S : j <= i
Min(S) == CHOOSE i \in S : \A j \in S : i <= j

\* mutant: undo raises the version of the record it rewrites
UndoRecordBumped(rec, op, now) ==
    IF rec.state # "live" THEN rec
    ELSE [rec EXCEPT !.version = @ + 1,
                     !.deleted_at = IF op.operation_type = "create" THEN now
                                    ELSE 0]

UndoRecord(rec, op, now) ==
    IF rec.state # "live" THEN rec
    ELSE CASE op.operation_type = "create" -> [rec EXCEPT !.deleted_at = now]
           [] op.operation_type = "delete" -> [rec EXCEPT !.deleted_at = 0]
           [] OTHER -> IF op.before_snapshot # << >>
                       THEN SessionApplySnapshot(rec, op.before_snapshot)
                       ELSE rec

RedoRecord(rec, op, now) ==
    IF rec.state # "live" THEN rec
    ELSE CASE op.operation_type = "create" -> [rec EXCEPT !.deleted_at = 0]
           [] op.operation_type = "delete" -> [rec EXCEPT !.deleted_at = now]
           [] OTHER -> SessionApplySnapshot(rec, op.after_snapshot)

\* UndoResponse / RedoResponse: the operation that was undone or redone
OperationResponse(op_name, s, i) ==
    [op |-> op_name, sid |-> s, status |-> "OK", conflicts |-> {},
     sequence |-> i]

Toggle(op_name, s, i, rec) ==
    /\ messages[s] < MaxMessages
    /\ records' = [records EXCEPT ![operations[s][i].record_id] = rec]
    /\ operations' = [operations EXCEPT ![s][i].is_undone = ~@]
    /\ messages' = [messages EXCEPT ![s] = @ + 1]
    /\ response' = OperationResponse(op_name, s, i)
    /\ UNCHANGED <<versions, sessions, locks, clock, inflight, touched>>

\* mutant: the failed call leaves a system message
NothingButMessage(op_name, s) ==
    /\ messages[s] < MaxMessages
    /\ messages' = [messages EXCEPT ![s] = @ + 1]
    /\ response' = Response(op_name, s, "VALIDATION", {})
    /\ UNCHANGED <<records, versions, sessions, operations, locks, clock,
                   inflight, touched>>

Nothing(op_name, s) ==
    /\ response' = Response(op_name, s, "VALIDATION", {})
    /\ UNCHANGED <<records, versions, sessions, operations, locks, messages,
                   clock, inflight, touched>>

UndoOperation(s, user) ==
    \/ NotActive("undo", s)
    \/ /\ sessions[s].status = "active"
       /\ IF NotUndone(s) = {} THEN Nothing("undo", s)
          ELSE LET i == Max(NotUndone(s))
                   op == operations[s][i]
               IN Toggle("undo", s, i, UndoRecord(records[op.record_id], op, clock + 1))

RedoOperation(s, user) ==
    \/ NotActive("redo", s)
    \/ /\ sessions[s].status = "active"
       /\ IF Undone(s) = {} THEN Nothing("redo", s)
          ELSE LET i == Min(Undone(s))
                   op == operations[s][i]
               IN Toggle("redo", s, i, RedoRecord(records[op.record_id], op, clock + 1))

\* ------------------------------------------------- conflicts and commit
\* mutant: only a record that moved backwards counts as a conflict
ConflictingOlderOnly(lks) ==
    {r \in Recs : /\ lks[r].present
                  /\ records[r].state = "live"
                  /\ records[r].version < lks[r].base_version}

\* records whose lock in row lks is anchored to another version
Conflicting(lks) ==
    {r \in Recs : /\ lks[r].present
                  /\ records[r].state = "live"
                  /\ records[r].version # lks[r].base_version}

ConflictInfo(r, lock) ==
    [record_id |-> r, your_version |-> lock.draft_snapshot,
     current_version |-> SessionRecordToSnapshot(records[r]),
     modified_by |-> records[r].updated_by]

\* mutant: the loop stops at the first conflict it finds
CheckConflictsOfFirst(lks) ==
    {ConflictInfo(r, lks[r]) : r \in
        {q \in Conflicting(lks) :
            \A p \in Conflicting(lks) : RecOrder[q] <= RecOrder[p]}}

CheckConflictsOf(lks) == {ConflictInfo(r, lks[r]) : r \in Conflicting(lks)}

CheckConflicts(s) == CheckConflictsOf(locks[s])

\* check_conflicts called on its own: it only reads
CheckConflictsCall(s) ==
    /\ sessions[s].status # "none"
    /\ response' = Response("check_conflicts", s, "OK", CheckConflicts(s))
    /\ UNCHANGED <<records, versions, sessions, operations, locks, messages,
                   clock, inflight, touched>>

\* the locks commit_session applies: every lock whose record still exists
Applicable(lks) == {r \in Recs : lks[r].present /\ records[r].state = "live"}

\* mutant: the committing user is not stamped on the record
ApplyLockUnstamped(rec, lock, user) ==
    [SessionApplySnapshot(rec, lock.draft_snapshot) EXCEPT
        !.version = @ + 1]

ApplyLock(rec, lock, user) ==
    [SessionApplySnapshot(rec, lock.draft_snapshot) EXCEPT
        !.version = @ + 1,
        !.updated_by = user]

\* mutant: the locks that do not conflict are applied before the conflict
\* is raised
CommitLocksPartial(op_name, s, user, lks, persisted) ==
    /\ records' = [r \in Recs |->
          IF r \in Applicable(lks) \ Conflicting(lks)
          THEN ApplyLock(records[r], lks[r], user) ELSE records[r]]
    /\ IF CheckConflictsOf(lks) # {}
       THEN /\ response' = Response(op_name, s, "CONFLICT", CheckConflictsOf(lks))
            /\ UNCHANGED <<versions, sessions, operations, locks, messages,
                           clock, inflight, touched>>
       ELSE /\ sessions' = [sessions EXCEPT ![s].status = "committed"]
            /\ messages' = [messages EXCEPT ![s] = @ + 1]
            /\ locks' = [locks EXCEPT ![s] = persisted]
            /\ touched' = Touch(Applicable(lks), user, s)
            /\ response' = Response(op_name, s, "OK", {})
            /\ UNCHANGED <<versions, operations, clock, inflight>>

\* mutant: a Date column takes the string a snapshot holds
FlushesAnything(lks) == TRUE

\* the rows the apply loop writes can be flushed: no draft sets the Date
\* column date_cashflow, which accepts date objects only, to a string
Flushes(lks) ==
    \A r \in Applicable(lks) : "date_cashflow" \notin DOMAIN lks[r].draft_snapshot

\* commit_session on the locks lks as the handler sees them; persisted is
\* the lock table as the handler's transaction leaves it
CommitLocks(op_name, s, user, lks, persisted) ==
    IF CheckConflictsOf(lks) # {}
    THEN /\ response' = Response(op_name, s, "CONFLICT", CheckConflictsOf(lks))
         /\ UNCHANGED <<records, versions, sessions, operations, locks,
                        messages, clock, inflight, touched>>
    ELSE IF ~Flushes(lks)
    THEN /\ response' = Response(op_name, s, "STATEMENT_ERROR", {})
         /\ UNCHANGED <<records, versions, sessions, operations, locks,
                        messages, clock, inflight, touched>>
    ELSE /\ records' = [r \in Recs |->
               IF r \in Applicable(lks)
               THEN ApplyLock(records[r], lks[r], user) ELSE records[r]]
         /\ sessions' = [sessions EXCEPT ![s].status = "committed"]
         /\ messages' = [messages EXCEPT ![s] = @ + 1]
         /\ locks' = [locks EXCEPT ![s] = persisted]
         /\ touched' = [Touch(Applicable(lks), user, s) EXCEPT
               ![s] = [r \in Recs |->
                         IF persisted[r] # locks[s][r] THEN "clean" ELSE @[r]]]
         /\ response' = Response(op_name, s, "OK", {})
         /\ UNCHANGED <<versions, operations, clock, inflight>>

CommitSession(s, user) ==
    \/ NotActive("commit", s)
    \/ /\ sessions[s].status = "active"
       /\ CommitLocks("commit", s, user, locks[s], locks[s])

\* ------------------------------------------------------ resolve_conflicts
ResolutionChoices ==
    {[strategy |-> "keep_mine", manual_values |-> << >>],
     [strategy |-> "keep_theirs", manual_values |-> << >>],
     [strategy |-> "manual", manual_values |-> [account |-> "ACME"]]}

\* resolutions, by record_id
ResolutionInputs ==
    UNION {[rs -> ResolutionChoices] : rs \in SUBSET Recs}

\* mutant: the manual values replace the draft
MergeReplace(d, u) == u

Merge(d, u) ==
    [k \in DOMAIN d \cup DOMAIN u |-> IF k \in DOMAIN u THEN u[k] ELSE d[k]]

\* mutant: keep_mine is handled like keep_theirs
ResolveLockTheirs(lock, rec, resolution) ==
    [lock EXCEPT
        !.draft_snapshot =
            IF resolution.strategy \in {"keep_theirs", "keep_mine"}
            THEN SessionRecordToSnapshot(rec)
            ELSE IF resolution.manual_values # << >>
                 THEN Merge(@, resolution.manual_values)
                 ELSE @,
        !.base_version = rec.version]

\* mutant: base_version is not refreshed
ResolveLockStale(lock, rec, resolution) ==
    [lock EXCEPT
        !.draft_snapshot =
            IF resolution.strategy = "keep_theirs"
            THEN SessionRecordToSnapshot(rec)
            ELSE IF resolution.strategy = "manual"
                    /\ resolution.manual_values # << >>
                 THEN Merge(@, resolution.manual_values)
                 ELSE @]

\* the lock as the handler holds it after one resolution
ResolveLock(lock, rec, resolution) ==
    [lock EXCEPT
        !.draft_snapshot =
            IF resolution.strategy = "keep_theirs"
            THEN SessionRecordToSnapshot(rec)
            ELSE IF resolution.strategy = "manual"
                    /\ resolution.manual_values # << >>
                 THEN Merge(@, resolution.manual_values)
                 ELSE @,
        !.base_version = rec.version]

Resolved(s, resolutions) ==
    [r \in Recs |->
        IF r \in DOMAIN resolutions /\ locks[s][r].present
           /\ records[r].state = "live"
        THEN ResolveLock(locks[s][r], records[r], resolutions[r])
        ELSE locks[s][r]]

\* what of the handler's lock reaches the table: draft_snapshot is a plain
\* JSON column, so dict.update() in place is not flushed; an assignment is
Persisted(s, resolutions) ==
    [r \in Recs |->
        IF r \in DOMAIN resolutions /\ resolutions[r].strategy = "manual"
        THEN [Resolved(s, resolutions)[r] EXCEPT
                 !.draft_snapshot = locks[s][r].draft_snapshot]
        ELSE Resolved(s, resolutions)[r]]

ResolveConflicts(s, user, resolutions) ==
    \/ NotActive("resolve_conflicts", s)
    \/ /\ sessions[s].status = "active"
       /\ CommitLocks("resolve_conflicts", s, user, Resolved(s, resolutions),
                      Persisted(s, resolutions))

\* ---------------------------------------------------------------- discard
\* mutant: the undone create operations count too
CreatedInAny(s) ==
    {operations[s][i].record_id : i \in
        {j \in DOMAIN operations[s] : operations[s][j].operation_type = "create"}}

\* records of the session's non-undone create operations
CreatedIn(s) ==
    {operations[s][i].record_id : i \in
        {j \in NotUndone(s) : operations[s][j].operation_type = "create"}}

\* mutant: the record is marked deleted and its row kept
SoftDelete(rec) == [rec EXCEPT !.deleted_at = 1]

\* db.delete(record): the row leaves the table
HardDelete(rec) == [rec EXCEPT !.state = "gone"]

\* re-apply the before_snapshot of one update/delete/transfer operation
DiscardOp(rec, op) ==
    IF \/ op.is_undone
       \/ op.operation_type = "create"
       \/ op.before_snapshot = << >>
       \/ rec.state # "live"
    THEN rec
    ELSE IF op.operation_type = "delete"
         THEN [SessionApplySnapshot(rec, op.before_snapshot) EXCEPT
                  !.deleted_at = 0]
         ELSE SessionApplySnapshot(rec, op.before_snapshot)

\* the orders in which a SELECT without ORDER BY may return n rows
RowOrders(n) ==
    {p \in [1..n -> 1..n] : \A i, j \in 1..n : p[i] = p[j] => i = j}

RECURSIVE DiscardFrom(_, _, _, _)
DiscardFrom(recs, ops, order, i) ==
    IF i > Len(ops) THEN recs
    ELSE LET op == ops[order[i]]
         IN DiscardFrom([recs EXCEPT ![op.record_id] = DiscardOp(@, op)],
                        ops, order, i + 1)

\* mutant: discard_session without its status check
DiscardSessionUnchecked(s, user) ==
    /\ sessions[s].status # "none"
    /\ LET deleted == {r \in CreatedIn(s) : records[r].state = "live"}
           remaining == [r \in Recs |->
               IF r \in deleted THEN HardDelete(records[r])
               ELSE records[r]]
       IN /\ \E order \in RowOrders(Len(operations[s])) :
                records' = DiscardFrom(remaining, operations[s], order, 1)
          /\ versions' = [r \in Recs |->
                IF r \in deleted THEN << >> ELSE versions[r]]
    /\ sessions' = [sessions EXCEPT ![s].status = "discarded"]
    /\ response' = Response("discard", s, "OK", {})
    /\ UNCHANGED <<operations, locks, messages, clock, inflight, touched>>

DiscardSession(s, user) ==
    \/ NotActive("discard", s)
    \/ /\ sessions[s].status = "active"
       /\ LET deleted == {r \in CreatedIn(s) : records[r].state = "live"}
              remaining == [r \in Recs |->
                  IF r \in deleted THEN HardDelete(records[r])
                  ELSE records[r]]
          IN /\ \E order \in RowOrders(Len(operations[s])) :
                   records' = DiscardFrom(remaining, operations[s], order, 1)
             /\ versions' = [r \in Recs |->
                   IF r \in deleted THEN << >> ELSE versions[r]]
       /\ sessions' = [sessions EXCEPT ![s].status = "discarded"]
       /\ response' = Response("discard", s, "OK", {})
       /\ UNCHANGED <<operations, locks, messages, clock, inflight, touched>>

\* ------------------------------------------------------------------- next
RecordCall ==
    \/ \E r \in Recs, data \in CreateInputs, u \in Users : CreateRecord(r, data, u)
    \/ \E r \in Recs, data \in UpdateInputs, u \in Users : UpdateRecord(r, data, u)
    \/ \E r \in Recs, u \in Users : DeleteRecord(r, u)
    \/ \E r \in Recs, a \in VALID_AREAS, u \in Users : TransferRecord(r, a, u)
    \/ \E r \in Recs, n \in 1..MaxClock, u \in Users : RestoreVersion(r, n, u)
    \/ \E r \in Recs, i \in 1..MaxClock, u \in Users : RollbackToVersion(r, i, u)
    \/ ClearHistory

SessionCall ==
    \/ \E s \in Sessions, u \in Users : CreateSession(s, u)
    \/ \E s \in Sessions : AddMessage(s)
    \/ \E s \in Sessions, r \in Recs, d \in DraftInputs : AddLock(s, r, d)
    \/ \E s \in Sessions, t \in OpTypes, r \in Recs, in \in OpInputs :
          AddOperation(s, t, r, in)
    \/ \E s \in Sessions, u \in Users : UndoOperation(s, u)
    \/ \E s \in Sessions, u \in Users : RedoOperation(s, u)
    \/ \E s \in Sessions, u \in Users : CommitSession(s, u)
    \/ \E s \in Sessions, u \in Users, res \in ResolutionInputs :
          ResolveConflicts(s, u, res)
    \/ \E s \in Sessions, u \in Users : DiscardSession(s, u)

Next == RecordCall \/ SessionCall

Spec == Init /\ [][Next]_vars

\* The properties are stated under restrictions of Next to the calls they
\* are about; every restriction starts from the same empty database.

\* the commit protocol: drafts, direct edits, commit and resolve_conflicts
Creator == "u1"
Editor == "u1"
OwnerOf == [s1 |-> "u1", s2 |-> "u2"]
DirectEdit == [account |-> "ACME", amount |-> 2000]
DraftOf == [s1 |-> [account |-> "BETA"],
            s2 |-> [amount |-> "10", version |-> 0]]

\* resolutions of one record, or of every record in the same way
Resolutions ==
    {res \in ResolutionInputs :
        Cardinality(DOMAIN res) <= 1 \/ \A r, q \in DOMAIN res : res[r] = res[q]}

NextCommit ==
    \/ \E r \in Recs, data \in CreateInputs : CreateRecord(r, data, Creator)
    \/ \E r \in Recs : UpdateRecord(r, DirectEdit, Editor)
    \/ \E s \in Sessions : CreateSession(s, OwnerOf[s])
    \/ \E s \in Sessions, r \in Recs : AddLock(s, r, DraftOf[s])
    \/ \E s \in Sessions, u \in Users : CommitSession(s, u)
    \/ \E s \in Sessions, res \in Resolutions :
          ResolveConflicts(s, OwnerOf[s], res)

SpecCommit == Init /\ [][NextCommit]_vars

\* two commit requests in flight: commit_session reads (check_conflicts)
\* and writes (the apply loop, flushed by get_db's commit) in separate
\* statements, each awaited, and neither the model nor the UPDATE carries a
\* version guard
CommitCheck(s, user) ==
    /\ inflight[s].stage = "idle"
    /\ \/ NotActive("commit", s)
       \/ /\ sessions[s].status = "active"
          /\ IF CheckConflicts(s) # {}
             THEN /\ response' = Response("commit", s, "CONFLICT",
                                          CheckConflicts(s))
                  /\ UNCHANGED inflight
             ELSE /\ inflight' = [inflight EXCEPT ![s] =
                        [stage |-> "checked", user |-> user,
                         seen |-> [r \in Recs |-> records[r].version]]]
                  /\ response' = Response("commit", s, "PENDING", {})
          /\ UNCHANGED <<records, versions, sessions, operations, locks,
                         messages, clock, touched>>

\* the record the apply loop writes: the draft's fields over the row, and
\* version + 1 of the object it holds, which is the one check_conflicts
\* loaded unless the second select refreshed it
ApplyInflight(s, r, refreshed) ==
    [ApplyLock(records[r], locks[s][r], inflight[s].user) EXCEPT
        !.version = IF refreshed THEN records[r].version + 1
                    ELSE inflight[s].seen[r] + 1]

CommitApply(s) ==
    /\ inflight[s].stage = "checked"
    /\ \E refreshed \in BOOLEAN :
          records' = [r \in Recs |->
             IF r \in Applicable(locks[s])
             THEN ApplyInflight(s, r, refreshed) ELSE records[r]]
    /\ sessions' = [sessions EXCEPT ![s].status = "committed"]
    /\ messages' = [messages EXCEPT ![s] = @ + 1]
    /\ inflight' = [inflight EXCEPT ![s] = Idle]
    /\ touched' = Touch(Applicable(locks[s]), inflight[s].user, s)
    /\ response' = Response("commit", s, "OK", {})
    /\ UNCHANGED <<versions, operations, locks, clock>>

NextRace ==
    \/ \E r \in Recs, data \in CreateInputs : CreateRecord(r, data, Creator)
    \/ \E s \in Sessions : CreateSession(s, OwnerOf[s])
    \/ \E s \in Sessions, r \in Recs : AddLock(s, r, DraftOf[s])
    \/ \E s \in Sessions : CommitCheck(s, OwnerOf[s])
    \/ \E s \in Sessions : CommitApply(s)

SpecRace == Init /\ [][NextRace]_vars

\* two update requests in flight: the api loads the record (get_record),
\* update_record changes the loaded object, and get_db's commit flushes the
\* UPDATE and the INSERT of the version row; the UPDATE carries no version
\* guard, the INSERT is under uq_record_version
UpdateRead(r, user) ==
    /\ inflight[user].stage = "idle"
    /\ records[r].state = "live"
    /\ inflight' = [inflight EXCEPT ![user] =
          [stage |-> "read", user |-> user,
           seen |-> [q \in Recs |-> IF q = r THEN records[r].version ELSE 0]]]
    /\ response' = Response("update_record", "-", "PENDING", {})
    /\ UNCHANGED <<records, versions, sessions, operations, locks, messages,
                   clock, touched>>

Loaded(user) == CHOOSE r \in Recs : inflight[user].seen[r] # 0

UpdateWrite(user, data) ==
    /\ inflight[user].stage = "read"
    /\ clock < MaxClock
    /\ LET r == Loaded(user)
           rec == [records[r] EXCEPT
                     !.account = IF "account" \in DOMAIN data
                                 THEN data.account ELSE @,
                     !.amount = IF "amount" \in DOMAIN data
                                THEN data.amount ELSE @,
                     !.updated_by = user,
                     !.version = inflight[user].seen[r] + 1]
       IN IF UniqueVersion(r, rec.version)
          THEN /\ records' = [records EXCEPT ![r] = rec]
               /\ versions' = [versions EXCEPT ![r] =
                     Append(@, CreateVersion(rec, user, "update", clock + 1))]
               /\ touched' = Touch({r}, user, "-")
               /\ clock' = clock + 1
               /\ response' = Response("update_record", "-", "OK", {})
          ELSE /\ response' = Response("update_record", "-",
                                       "INTEGRITY_ERROR", {})
               /\ UNCHANGED <<records, versions, touched, clock>>
    /\ inflight' = [inflight EXCEPT ![user] = Idle]
    /\ UNCHANGED <<sessions, operations, locks, messages>>

NextWriters ==
    \/ \E r \in Recs, data \in CreateInputs : CreateRecord(r, data, Creator)
    \/ \E r \in Recs, u \in Users : UpdateRead(r, u)
    \/ \E u \in Users : UpdateWrite(u, DirectEdit)
    \/ \E r \in Recs : UpdateRecord(r, DirectEdit, Editor)
    \/ \E r \in Recs, n \in 1..MaxClock : RestoreVersion(r, n, Editor)

SpecWriters == Init /\ [][NextWriters]_vars

\* the version history: every call that writes a record, with one session
Worker == "u2"
HistorySessions == {"s1"}
HistoryCreate == [area |-> "budget", account |-> "ACME", amount |-> 1000]
HistoryOps ==
    {[operation_type |-> "create", before_snapshot |-> << >>,
      after_snapshot |-> [account |-> "BETA"]],
     [operation_type |-> "update",
      before_snapshot |-> [amount |-> "10.00", version |-> 0],
      after_snapshot |-> [amount |-> "20.00"]],
     [operation_type |-> "delete", before_snapshot |-> [account |-> "ACME"],
      after_snapshot |-> << >>]}

NextHistory ==
    \/ \E r \in Recs : CreateRecord(r, HistoryCreate, Creator)
    \/ \E r \in Recs : UpdateRecord(r, DirectEdit, Editor)
    \/ \E r \in Recs : DeleteRecord(r, Editor)
    \/ \E r \in Recs, a \in VALID_AREAS : TransferRecord(r, a, Editor)
    \/ \E r \in Recs, n \in 1..MaxClock : RestoreVersion(r, n, Editor)
    \/ \E r \in Recs, i \in 1..MaxClock : RollbackToVersion(r, i, Editor)
    \/ \E s \in HistorySessions : CreateSession(s, Worker)
    \/ \E s \in HistorySessions, r \in Recs : AddLock(s, r, DraftOf["s2"])
    \/ \E s \in HistorySessions, r \in Recs, in \in HistoryOps :
          AddOperation(s, in.operation_type, r, in)
    \/ \E s \in HistorySessions : UndoOperation(s, Worker)
    \/ \E s \in HistorySessions : RedoOperation(s, Worker)
    \/ \E s \in HistorySessions : CommitSession(s, Worker)
    \/ \E s \in HistorySessions : DiscardSession(s, Worker)

SpecHistory == Init /\ [][NextHistory]_vars

\* conflict detection: drafts of two sessions, direct edits and commits
NextConflicts ==
    \/ \E r \in Recs : CreateRecord(r, HistoryCreate, Creator)
    \/ \E r \in Recs : UpdateRecord(r, DirectEdit, Editor)
    \/ \E s \in Sessions : CreateSession(s, OwnerOf[s])
    \/ \E s \in Sessions, r \in Recs : AddLock(s, r, DraftOf[s])
    \/ \E s \in Sessions : CheckConflictsCall(s)
    \/ \E s \in Sessions : CommitSession(s, OwnerOf[s])

SpecConflicts == Init /\ [][NextConflicts]_vars

\* rollbacks, in a workspace that already holds a record created at time 0
InitRollback ==
    LET rec == [state |-> "live", version |-> 1,
                account |-> HistoryCreate.account,
                amount |-> HistoryCreate.amount, area |-> HistoryCreate.area,
                deleted_at |-> 0, updated_by |-> Creator]
    IN /\ records = [r \in Recs |-> IF r = "r1" THEN rec ELSE AbsentRecord]
       /\ versions = [r \in Recs |->
             IF r = "r1" THEN <<CreateVersion(rec, Creator, "create", 0)>>
             ELSE << >>]
       /\ sessions = [s \in Sessions |-> NoSession]
       /\ operations = [s \in Sessions |-> << >>]
       /\ locks = [s \in Sessions |-> [r \in Recs |-> NoLock]]
       /\ messages = [s \in Sessions |-> 0]
       /\ clock = 0
       /\ inflight = [q \in Requests |-> Idle]
       /\ touched = [s \in Sessions |-> [r \in Recs |-> "clean"]]
       /\ response = Response("init", "-", "OK", {})

NextRollback ==
    \/ \E r \in Recs : CreateRecord(r, HistoryCreate, Creator)
    \/ \E r \in Recs : UpdateRecord(r, DirectEdit, Editor)
    \/ \E r \in Recs : DeleteRecord(r, Editor)
    \/ \E r \in Recs, a \in VALID_AREAS : TransferRecord(r, a, Editor)
    \/ \E r \in Recs, i \in 1..MaxClock + 1 : RollbackToVersion(r, i, Editor)
    \/ ClearHistory

SpecRollback == InitRollback /\ [][NextRollback]_vars

\* restores: the calls that write a record, and a session commit
NextRestore ==
    \/ \E r \in Recs : CreateRecord(r, HistoryCreate, Creator)
    \/ \E r \in Recs : UpdateRecord(r, DirectEdit, Editor)
    \/ \E r \in Recs : DeleteRecord(r, Editor)
    \/ \E r \in Recs, a \in VALID_AREAS : TransferRecord(r, a, Editor)
    \/ \E r \in Recs, n \in 1..MaxClock : RestoreVersion(r, n, Editor)
    \/ \E s \in HistorySessions : CreateSession(s, Worker)
    \/ \E s \in HistorySessions, r \in Recs : AddLock(s, r, DraftOf["s1"])
    \/ \E s \in HistorySessions : CommitSession(s, Worker)

SpecRestore == Init /\ [][NextRestore]_vars

\* the session log: edits made within a session the way the tests make
\* them (the record is changed, then the change is logged with
\* add_operation), undone, redone, committed or discarded
OtherAccount == [ACME |-> "BETA", BETA |-> "ACME"]
OtherAmount == [n \in Amounts |-> IF n = 1000 THEN 2000 ELSE 1000]
OtherArea == [budget |-> "orders", orders |-> "budget"]

\* the record after an edit of the given type
Edited(rec, operation_type, now) ==
    CASE operation_type = "create" ->
            [state |-> "live", version |-> 1, account |-> HistoryCreate.account,
             amount |-> HistoryCreate.amount, area |-> HistoryCreate.area,
             deleted_at |-> 0, updated_by |-> NoUser]
      [] operation_type = "update" ->
            [rec EXCEPT !.account = OtherAccount[@], !.amount = OtherAmount[@]]
      [] operation_type = "delete" -> [rec EXCEPT !.deleted_at = now]
      [] operation_type = "transfer" -> [rec EXCEPT !.area = OtherArea[@]]

\* the fields an edit of the given type writes, as a snapshot
EditSnapshot(rec, operation_type) ==
    CASE operation_type = "update" ->
            [account |-> rec.account, amount |-> FormatAmount(rec.amount)]
      [] operation_type = "transfer" -> [area |-> rec.area]
      [] OTHER -> [account |-> rec.account]

Edit(s, operation_type, r) ==
    \/ NotActive("add_operation", s)
    \/ /\ sessions[s].status = "active"
       /\ Len(operations[s]) < MaxOps
       /\ IF operation_type = "create" THEN FreshRecord(r)
          ELSE records[r].state = "live" /\ records[r].deleted_at = 0
       /\ LET rec == Edited(records[r], operation_type, clock + 1)
          IN /\ records' = [records EXCEPT ![r] = rec]
             /\ LogOperation(s, operation_type, r,
                   [before_snapshot |->
                        IF operation_type = "create" THEN << >>
                        ELSE EditSnapshot(records[r], operation_type),
                    after_snapshot |-> EditSnapshot(rec, operation_type)])
       /\ response' = Response("add_operation", s, "OK", {})
       /\ UNCHANGED <<versions, locks, messages, clock, inflight, touched>>

NextSession ==
    \/ \E r \in Recs : CreateRecord(r, HistoryCreate, Creator)
    \/ \E s \in HistorySessions : CreateSession(s, Worker)
    \/ \E s \in HistorySessions : AddMessage(s)
    \/ \E s \in HistorySessions, r \in Recs : AddLock(s, r, DraftOf["s1"])
    \/ \E s \in HistorySessions, t \in OpTypes, r \in Recs : Edit(s, t, r)
    \/ \E s \in HistorySessions : UndoOperation(s, Worker)
    \/ \E s \in HistorySessions : RedoOperation(s, Worker)
    \/ \E s \in HistorySessions : CommitSession(s, Worker)
    \/ \E s \in HistorySessions, res \in Resolutions :
          ResolveConflicts(s, Worker, res)
    \/ \E s \in HistorySessions : DiscardSession(s, Worker)

SpecSession == Init /\ [][NextSession]_vars

\* undo and redo in one session next to the locks of another: s1 edits,
\* undoes and redoes while s2 drafts the same records and checks conflicts
NextUndo ==
    \/ \E r \in Recs : CreateRecord(r, HistoryCreate, Creator)
    \/ \E r \in Recs : UpdateRecord(r, DirectEdit, Editor)
    \/ \E s \in Sessions : CreateSession(s, OwnerOf[s])
    \/ \E r \in Recs : AddLock("s2", r, DraftOf["s2"])
    \/ \E t \in OpTypes, r \in Recs : Edit("s1", t, r)
    \/ UndoOperation("s1", OwnerOf["s1"])
    \/ RedoOperation("s1", OwnerOf["s1"])
    \/ CheckConflictsCall("s2")
    \/ CommitSession("s1", OwnerOf["s1"])

SpecUndo == Init /\ [][NextUndo]_vars

\* discard of a session whose log holds undone and standing operations
NextDiscard ==
    \/ \E r \in Recs : CreateRecord(r, HistoryCreate, Creator)
    \/ \E s \in HistorySessions : CreateSession(s, Worker)
    \/ \E s \in HistorySessions, r \in Recs, in \in HistoryOps :
          AddOperation(s, in.operation_type, r, in)
    \/ \E s \in HistorySessions : UndoOperation(s, Worker)
    \/ \E s \in HistorySessions : RedoOperation(s, Worker)
    \/ \E s \in HistorySessions : DiscardSession(s, Worker)

SpecDiscard == Init /\ [][NextDiscard]_vars

\* snapshots that name a version, in every place the session engine takes
\* one from: a draft, the before/after pair of an operation, manual values
VersionedOp ==
    [operation_type |-> "update",
     before_snapshot |-> [amount |-> "10.00", version |-> 0],
     after_snapshot |-> [amount |-> "20.00", version |-> 0]]

ManualVersion(r) ==
    [q \in {r} |-> [strategy |-> "manual",
                    manual_values |-> [account |-> "BETA", version |-> 0]]]

NextKeys ==
    \/ \E r \in Recs : CreateRecord(r, HistoryCreate, Creator)
    \/ \E r \in Recs : UpdateRecord(r, DirectEdit, Editor)
    \/ \E s \in HistorySessions : CreateSession(s, Worker)
    \/ \E s \in HistorySessions, r \in Recs : AddLock(s, r, DraftOf["s2"])
    \/ \E s \in HistorySessions, r \in Recs :
          AddOperation(s, "update", r, VersionedOp)
    \/ \E s \in HistorySessions : UndoOperation(s, Worker)
    \/ \E s \in HistorySessions : RedoOperation(s, Worker)
    \/ \E s \in HistorySessions : CommitSession(s, Worker)
    \/ \E s \in HistorySessions, r \in Recs :
          ResolveConflicts(s, Worker, ManualVersion(r))
    \/ \E s \in HistorySessions : DiscardSession(s, Worker)

SpecKeys == Init /\ [][NextKeys]_vars

\* ------------------------------------------------------------- properties
FieldKeys == {"area", "account", "amount"}

\* record rec holds value v of a snapshot under key k
Holds(rec, k, v) ==
    IF k = "amount" THEN rec.amount = ParseAmount(v) ELSE rec[k] = v

\* record rec carries every field value of snapshot snap
Carries(rec, snap) ==
    \A k \in DOMAIN snap \cap FieldKeys : Holds(rec, k, snap[k])

ConflictRecords(conflicts) == {c.record_id : c \in conflicts}

\* C1: a commit that finds a conflict fails with CONFLICT, carries the
\* conflict set, changes no record (nor any version entry, lock or session)
\* and leaves the session active.
C1_ConflictAppliesNothing ==
    [][(response'.op = "commit" /\ response'.status = "CONFLICT") =>
          /\ response'.conflicts = CheckConflicts(response'.sid)
          /\ response'.conflicts # {}
          /\ records' = records
          /\ versions' = versions
          /\ locks' = locks
          /\ sessions' = sessions
          /\ sessions'[response'.sid].status = "active"]_vars

\* a rejected commit of a session that also holds a lock that does not
\* conflict
C1_Witness ==
    /\ response.op = "commit"
    /\ response.status = "CONFLICT"
    /\ \E r \in Recs :
          /\ locks[response.sid][r].present
          /\ records[r].state = "live"
          /\ records[r].version = locks[response.sid][r].base_version

\* C2: A and B hold locks on R with the same base_version; right after A's
\* commit (R one version up), B's commit is rejected with exactly one
\* conflict for R (the only conflict when R is B's only lock), whose
\* current_version holds the values A committed.
C2_SecondCommitRejected ==
    [][\A r \in Recs :
          LET a == response.sid
              b == response'.sid
          IN (/\ response.op = "commit"
              /\ response.status = "OK"
              /\ response'.op = "commit"
              /\ b # a
              /\ sessions[b].status = "active"
              /\ records[r].state = "live"
              /\ locks[a][r].present
              /\ locks[b][r].present
              /\ locks[a][r].base_version = locks[b][r].base_version)
             => /\ records[r].version = locks[a][r].base_version + 1
                /\ response'.status = "CONFLICT"
                /\ Cardinality({c \in response'.conflicts : c.record_id = r}) = 1
                /\ \A c \in response'.conflicts :
                      c.record_id = r =>
                         \A k \in DOMAIN locks[a][r].draft_snapshot \cap FieldKeys :
                            IF k = "amount"
                            THEN ParseAmount(c.current_version[k]) =
                                 ParseAmount(locks[a][r].draft_snapshot[k])
                            ELSE c.current_version[k] =
                                 locks[a][r].draft_snapshot[k]
                /\ (\A q \in Recs \ {r} : ~locks[b][q].present)
                      => Cardinality(response'.conflicts) = 1]_vars

C2_Witness ==
    /\ response.op = "commit"
    /\ response.status = "CONFLICT"
    /\ Cardinality(response.conflicts) = 1
    /\ \E a \in Sessions \ {response.sid}, r \in Recs :
          /\ sessions[a].status = "committed"
          /\ r \in ConflictRecords(response.conflicts)
          /\ locks[a][r].present
          /\ locks[a][r].base_version = locks[response.sid][r].base_version
          /\ records[r].version = locks[a][r].base_version + 1
          /\ Carries(records[r], locks[a][r].draft_snapshot)

\* C3 as claimed: of two sessions holding locks on one record with the same
\* base_version whose commits interleave, at most one ends committed.
C3_AtMostOneCommits ==
    \A a, b \in Sessions, r \in Recs :
        (/\ a # b
         /\ locks[a][r].present
         /\ locks[b][r].present
         /\ locks[a][r].base_version = locks[b][r].base_version)
        => ~(sessions[a].status = "committed" /\ sessions[b].status = "committed")

KeepMine(r) == [q \in {r} |-> [strategy |-> "keep_mine", manual_values |-> << >>]]

\* C4: after B's commit was rejected with a conflict on R alone,
\* resolve_conflicts(B, [{R, keep_mine}]) succeeds: B is committed, R is one
\* version above the version the other party left, and R carries B's draft.
C4_KeepMineCommits ==
    [][\A b \in Sessions, r \in Recs, u \in Users :
          (/\ response.op = "commit"
           /\ response.sid = b
           /\ response.status = "CONFLICT"
           /\ ConflictRecords(response.conflicts) = {r}
           /\ ResolveConflicts(b, u, KeepMine(r)))
          => /\ response'.status = "OK"
             /\ sessions'[b].status = "committed"
             /\ records'[r].version = records[r].version + 1
             /\ records'[r].version > locks[b][r].base_version + 1
             /\ Carries(records'[r], locks[b][r].draft_snapshot)]_vars

C4_Witness ==
    /\ response.op = "resolve_conflicts"
    /\ response.status = "OK"
    /\ \E r \in Recs :
          /\ locks[response.sid][r].present
          /\ locks[response.sid][r].draft_snapshot = DraftOf[response.sid]
          /\ locks[response.sid][r].base_version >= 2
          /\ records[r].version = locks[response.sid][r].base_version + 1
          /\ Carries(records[r], DraftOf[response.sid])
          /\ \E a \in Sessions \ {response.sid} :
                sessions[a].status = "committed" /\ locks[a][r].present

\* C5 as claimed: whatever the resolutions, the commit resolve_conflicts
\* invokes finds no conflict and the session ends committed.
C5_AnyResolutionCommits ==
    [][(response'.op = "resolve_conflicts"
        /\ sessions[response'.sid].status = "active")
       => /\ response'.status = "OK"
          /\ sessions'[response'.sid].status = "committed"]_vars

\* C5, amended: when the resolutions name every record whose lock conflicts,
\* the commit resolve_conflicts invokes finds no conflict and the session
\* ends committed: a resolve_conflicts step on an active session either
\* commits it or is the step of no call with such resolutions.
C5_CoveringResolutionCommits ==
    [][response'.op = "resolve_conflicts" =>
          LET s == response'.sid
          IN sessions[s].status = "active" =>
                \/ /\ response'.status = "OK"
                   /\ response'.conflicts = {}
                   /\ sessions'[s].status = "committed"
                \/ \A res \in ResolutionInputs :
                      Conflicting(locks[s]) \subseteq DOMAIN res
                      => ~ResolveConflicts(s, OwnerOf[s], res)]_vars

\* a session committed by resolve_conflicts on a record another party
\* had moved on
C5_Witness ==
    /\ response.op = "resolve_conflicts"
    /\ response.status = "OK"
    /\ sessions[response.sid].status = "committed"
    /\ \E r \in Recs :
          /\ locks[response.sid][r].present
          /\ records[r].version = locks[response.sid][r].base_version + 1
          /\ locks[response.sid][r].base_version >= 2

\* C6 as claimed: a session's edit of a record it has drafted, followed by
\* commit with no change to its drafted records by anyone else, commits
\* without conflict and leaves every drafted record at base_version + 1.
C6_EditThenCommit ==
    [][\A s \in Sessions, u \in Users :
          (/\ response'.op = "commit"
           /\ response'.sid = s
           /\ sessions[s].status = "active"
           /\ \A r \in Recs : locks[s][r].present => touched[s][r] # "other"
           /\ CommitSession(s, u))
          => /\ response'.status = "OK"
             /\ sessions'[s].status = "committed"
             /\ \A r \in Recs :
                   locks[s][r].present =>
                      records'[r].version = locks[s][r].base_version + 1]_vars

\* C7 as claimed: while no other actor has changed a record since the
\* session drafted it, check_conflicts reports no conflict for it.
C7_NoSelfConflict ==
    \A s \in Sessions, r \in Recs :
        (/\ sessions[s].status = "active"
         /\ locks[s][r].present
         /\ touched[s][r] # "other")
        => r \notin ConflictRecords(CheckConflicts(s))

\* C8: a commit that finds no conflict applies every lock of the session:
\* the record carries the draft values, its version is one higher and
\* updated_by is the committing user.
C8_CommitAppliesEveryLock ==
    [][\A s \in Sessions, u \in Users :
          (/\ response'.op = "commit"
           /\ response'.sid = s
           /\ response'.status = "OK"
           /\ sessions[s].status = "active"
           /\ CommitSession(s, u))
          => \A r \in Recs :
                (locks[s][r].present /\ records[r].state = "live")
                => /\ Carries(records'[r], locks[s][r].draft_snapshot)
                   /\ records'[r].version = records[r].version + 1
                   /\ records'[r].updated_by = u]_vars

\* a commit of two locks by a user other than the last editor
C8_Witness ==
    /\ response.op = "commit"
    /\ response.status = "OK"
    /\ \A r \in Recs :
          /\ locks[response.sid][r].present
          /\ records[r].version = locks[response.sid][r].base_version + 1
          /\ records[r].updated_by # Creator
          /\ Carries(records[r], locks[response.sid][r].draft_snapshot)

\* C9 as claimed: every step that changes a record's version appends
\* exactly one record_versions row to that record, carrying the new version.
C9_BumpAppendsEntry ==
    [][\A r \in Recs :
          (records'[r].state = "live" /\ records'[r].version # records[r].version)
          => /\ Len(versions'[r]) = Len(versions[r]) + 1
             /\ SubSeq(versions'[r], 1, Len(versions[r])) = versions[r]
             /\ versions'[r][Len(versions'[r])].version = records'[r].version]_vars

VersionedCalls ==
    {"update_record", "delete_record", "transfer_record", "restore_version"}

Bumped == {r \in Recs : records'[r].version = records[r].version + 1}
Kept == {r \in Recs : records'[r].version = records[r].version}

\* C10: a record is created at version 1; no call lowers the version of a
\* record; update, delete, transfer and restore raise the version of one
\* record by 1, rollback that of every record it restores, a session
\* commit that of every record it applies a lock to; undo, redo and
\* discard leave every version as it is.
C10_VersionCounts ==
    [][/\ \A r \in Recs :
             /\ (records[r].state = "absent" /\ records'[r].state = "live")
                   => records'[r].version = 1
             /\ (records[r].state = "live" /\ records'[r].state = "live")
                   => r \in Bumped \cup Kept
       /\ (response'.op \in VersionedCalls /\ response'.status = "OK")
             => Cardinality(Bumped) = 1 /\ Bumped \cup Kept = Recs
       /\ response'.op = "rollback_to_version"
             => {r \in Recs : records'[r] # records[r]} = Bumped
       /\ (response'.op = "commit" /\ response'.status = "OK")
             => Applicable(locks[response'.sid]) = Bumped
       /\ response'.op \in {"undo", "redo", "discard"}
             => \A r \in Recs : records'[r].state = "live" => r \in Kept]_vars

\* an undo or discard of an update whose before_snapshot names a version,
\* on a record that had reached version 2
C10_Witness ==
    /\ response.op \in {"undo", "discard"}
    /\ response.status = "OK"
    /\ \E r \in Recs :
          /\ records[r].state = "live"
          /\ records[r].version = 2
          /\ \E s \in Sessions :
                \E i \in DOMAIN operations[s] :
                   /\ operations[s][i].record_id = r
                   /\ operations[s][i].operation_type = "update"
                   /\ "version" \in DOMAIN operations[s][i].before_snapshot
                   /\ (operations[s][i].is_undone \/ response.op = "discard")

\* C11: no two record_versions rows of one record carry the same version,
\* also when two requests mutate the record concurrently.
C11_UniqueVersions ==
    \A r \in Recs : \A i, j \in DOMAIN versions[r] :
        i # j => versions[r][i].version # versions[r][j].version

\* two requests had loaded the same version of a record; the second to
\* write was refused
C11_Witness ==
    /\ response.op = "update_record"
    /\ response.status = "INTEGRITY_ERROR"
    /\ \E r \in Recs : Len(versions[r]) >= 2

\* C12: the status of a session only moves from active to committed or
\* from active to discarded (a session is created active); once it is
\* committed or discarded no commit, resolve_conflicts, discard, undo,
\* redo, add_operation or add_message call changes it again.
C12_StatusTransitions ==
    [][\A s \in Sessions :
          sessions'[s].status # sessions[s].status =>
             \/ sessions[s].status = "none" /\ sessions'[s].status = "active"
             \/ /\ sessions[s].status = "active"
                /\ sessions'[s].status \in {"committed", "discarded"}]_vars

\* a discard was attempted on a session that had been committed after an
\* edit
C12_Witness ==
    /\ response.op = "discard"
    /\ response.sid \in Sessions
    /\ sessions[response.sid].status = "committed"
    /\ operations[response.sid] # << >>

MutatingSessionCalls ==
    {"add_operation", "undo", "redo", "commit", "resolve_conflicts",
     "discard", "add_message"}

\* C13: add_operation, undo, redo, commit, resolve_conflicts, discard and
\* add_message on a session that is committed or discarded fail with
\* SessionNotActive and leave the operation log, the locks, the records
\* (and their version entries), the session row and its messages unchanged.
C13_ClosedSessionRejects ==
    [][\A s \in Sessions :
          (/\ response'.sid = s
           /\ response'.op \in MutatingSessionCalls
           /\ sessions[s].status \in {"committed", "discarded"})
          => /\ response'.status = "SESSION_NOT_ACTIVE"
             /\ UNCHANGED <<records, versions, sessions, operations, locks,
                            messages>>]_vars

\* an undo was refused on a discarded session that holds a logged edit
C13_Witness ==
    /\ response.op = "undo"
    /\ response.status = "SESSION_NOT_ACTIVE"
    /\ sessions[response.sid].status = "discarded"
    /\ NotUndone(response.sid) # {}

\* C14: in an active session changes_count is the number of operations
\* that are not undone, and each changes_summary counter is the number of
\* operations of its type that are not undone.
C14_CountsMatchLog ==
    \A s \in Sessions :
        sessions[s].status = "active" =>
            /\ sessions[s].changes_count = Cardinality(NotUndone(s))
            /\ \A t \in OpTypes :
                  sessions[s].changes_summary[SummaryKey[t]] =
                     Cardinality({i \in NotUndone(s) :
                                     operations[s][i].operation_type = t})

\* C15: a redo that immediately follows an undo succeeds, leaves the
\* operation the undo targeted not undone, and leaves its record with the
\* field values the edit gave it (the operation's after_snapshot) and the
\* deletion status the edit gave it, for every operation type.
C15_UndoRedoRoundTrip ==
    [][(/\ response.op = "undo" /\ response.status = "OK"
        /\ response'.op = "redo" /\ response'.sid = response.sid)
       => LET s == response.sid
              i == response.sequence
              op == operations[s][i]
              rec == records'[op.record_id]
          IN /\ response'.status = "OK"
             /\ ~operations'[s][i].is_undone
             /\ Carries(rec, op.after_snapshot)
             /\ (rec.deleted_at # 0) = (op.operation_type = "delete")]_vars

\* C16: once an edit has been appended after an operation O was undone, no
\* redo re-applies O: a redo never targets an operation older than an
\* operation of the session that is not undone.
C16_RedoSkipsStale ==
    [][(response'.op = "redo" /\ response'.status = "OK")
       => \A j \in NotUndone(response'.sid) : j < response'.sequence]_vars

\* C17: after a discard that succeeds, no record of a create operation of
\* the session that was not undone is in storage any more: its row is
\* gone, not merely marked deleted.
C17_DiscardDropsCreated ==
    [][(response'.op = "discard" /\ response'.status = "OK")
       => \A r \in CreatedIn(response'.sid) : records'[r].state = "gone"]_vars

\* a session that had created a record was discarded
C17_Witness ==
    /\ response.op = "discard"
    /\ response.status = "OK"
    /\ \E r \in CreatedIn(response.sid) : records[r].state = "gone"

\* the operations of session s on record r whose before_snapshot holds key k
BeforeOf(s, r, k) ==
    {i \in DOMAIN operations[s] :
        /\ operations[s][i].record_id = r
        /\ k \in DOMAIN operations[s][i].before_snapshot}

\* records that existed before session s and that it updated, deleted or
\* transferred
ModifiedIn(s) ==
    {r \in Recs :
        /\ \E i \in NotUndone(s) : /\ operations[s][i].record_id = r
                                   /\ operations[s][i].operation_type # "create"
        /\ \A i \in DOMAIN operations[s] :
              operations[s][i].record_id = r
                 => operations[s][i].operation_type # "create"}

\* C18: after a discard that succeeds, every record that existed before the
\* session and that the session updated, deleted or transferred is not
\* deleted and holds, in every field the session wrote, the value that
\* field had before the session's first operation on it, however many
\* operations the session applied to the record.
C18_DiscardRestoresOriginal ==
    [][(response'.op = "discard" /\ response'.status = "OK")
       => LET s == response'.sid
          IN \A r \in ModifiedIn(s) :
                /\ records'[r].state = "live"
                /\ records'[r].deleted_at = 0
                /\ \A k \in FieldKeys :
                      BeforeOf(s, r, k) # {} =>
                         Holds(records'[r], k,
                               operations[s][Min(BeforeOf(s, r, k))]
                                  .before_snapshot[k])]_vars

C20_RestoreBack ==
    [][(/\ response.op = "restore_version" /\ response.status = "OK"
        /\ response'.op = "restore_version"
        /\ response'.record_id = response.record_id
        /\ response'.version_number = response.before.version)
       => LET r == response.record_id
          IN /\ response'.status = "OK"
             /\ RecordToSnapshot(records'[r]) = RecordToSnapshot(response.before)
             /\ records[r].version = response.before.version + 1
             /\ records'[r].version = response.before.version + 2]_vars

\* the entry a rollback appends for record r
RollbackEntry(r) ==
    /\ Len(versions'[r]) = Len(versions[r]) + 1
    /\ SubSeq(versions'[r], 1, Len(versions[r])) = versions[r]
    /\ versions'[r][Len(versions'[r])].change_type = "rollback"
    /\ versions'[r][Len(versions'[r])].version = records'[r].version

\* C21: a rollback to a marker older than the creation of a record (the
\* earliest entry of the record is a create dated after the marker) marks
\* that record deleted, raises its version by 1 and appends a rollback
\* entry for it.
C21_RollbackDeletesLater ==
    [][response'.op = "rollback_to_version"
       => \A r \in Recs :
             (/\ records[r].state = "live"
              /\ versions[r] # << >>
              /\ versions[r][Earliest(r)].change_type = "create"
              /\ versions[r][Earliest(r)].changed_at > response'.changed_at)
             => /\ records'[r].deleted_at # 0
                /\ records'[r].version = records[r].version + 1
                /\ RollbackEntry(r)]_vars

\* a rollback to the creation of the first record, made after a second
\* record was created, deleted the second record
C21_Witness ==
    /\ response.op = "rollback_to_version"
    /\ response.changed_at = 0
    /\ records["r2"].state = "live"
    /\ records["r2"].deleted_at # 0
    /\ "r2" \in response.restored

\* C22: a rollback leaves every record without an entry dated after the
\* marker as it is: its fields, deleted_at, version and entries are
\* unchanged and it is not among the restored records.
C22_RollbackFrame ==
    [][response'.op = "rollback_to_version"
       => \A r \in Recs :
             (\A i \in DOMAIN versions[r] :
                 versions[r][i].changed_at <= response'.changed_at)
             => /\ records'[r] = records[r]
                /\ versions'[r] = versions[r]
                /\ r \notin response'.restored]_vars

\* a rollback to the last change of the first record restored the second
\* record and left the first, changed twice, alone
C22_Witness ==
    /\ response.op = "rollback_to_version"
    /\ response.restored = {"r2"}
    /\ Len(versions["r1"]) = 2
    /\ versions["r1"][2].changed_at = response.changed_at

C24_EditCreatesLock ==
    [][(response'.op = "update_record" /\ response'.status = "OK")
       => \A r \in Recs :
             (/\ records'[r].version # records[r].version
              /\ \E s \in Sessions :
                    /\ sessions[s].status = "active"
                    /\ sessions[s].user_id = records'[r].updated_by)
             => \E s \in Sessions :
                   /\ sessions'[s].status = "active"
                   /\ sessions'[s].user_id = records'[r].updated_by
                   /\ locks'[s][r].present
                   /\ locks'[s][r].base_version <= records[r].version
                   /\ DOMAIN DirectEdit \subseteq
                         DOMAIN locks'[s][r].draft_snapshot
                   /\ Carries(records'[r], locks'[s][r].draft_snapshot)]_vars

\* C25: a create_record made while no session is active is rejected with
\* SESSION_REQUIRED and creates no record and no version entry.
C25_CreateNeedsSession ==
    [][(/\ response'.op = "create_record"
        /\ \A s \in Sessions : sessions[s].status # "active")
       => /\ response'.status = "SESSION_REQUIRED"
          /\ UNCHANGED <<records, versions>>]_vars

\* C26: create_record yields a record at version 1 with exactly one version
\* entry, of change_type create and version 1, whose snapshot equals the
\* field values of the record.
C26_CreateWritesEntry ==
    [][(response'.op = "create_record" /\ response'.status = "OK")
       => \E r \in Recs :
             /\ records[r].state = "absent"
             /\ records'[r].state = "live"
             /\ records'[r].version = 1
             /\ Len(versions'[r]) = 1
             /\ versions'[r][1].change_type = "create"
             /\ versions'[r][1].version = 1
             /\ versions'[r][1].snapshot = RecordToSnapshot(records'[r])]_vars

\* a second record was just created
C26_Witness ==
    /\ response.op = "create_record"
    /\ records["r2"].version = 1
    /\ Len(versions["r2"]) = 1

\* C27: check_conflicts(session) returns exactly one conflict for each lock
\* of the session whose base_version differs from the version of its
\* record and none for a lock whose base_version equals it, and changes
\* no record, lock or session.
C27_CheckConflictsExact ==
    [][response'.op = "check_conflicts"
       => LET s == response'.sid
              stale == {r \in Recs : /\ locks[s][r].present
                                     /\ records[r].state = "live"
                                     /\ locks[s][r].base_version
                                           # records[r].version}
          IN /\ ConflictRecords(response'.conflicts) = stale
             /\ Cardinality(response'.conflicts) = Cardinality(stale)
             /\ UNCHANGED <<records, versions, sessions, operations, locks,
                            messages>>]_vars

\* check_conflicts found one lock of a session stale and another one not
C27_Witness ==
    /\ response.op = "check_conflicts"
    /\ Cardinality(response.conflicts) = 1
    /\ \A r \in Recs : locks[response.sid][r].present

\* the part of draft d under the keys that values u do not supply
Unsupplied(d, u) == [k \in DOMAIN d \ DOMAIN u |-> d[k]]

KeepTheirs(r) ==
    [q \in {r} |-> [strategy |-> "keep_theirs", manual_values |-> << >>]]

\* C29: after B's commit was rejected with a conflict on R alone,
\* resolve_conflicts(B, [{R, keep_theirs}]) goes through: B is committed,
\* R keeps the field values the other party committed and R's version
\* rises by 1.
C29_KeepTheirsCommits ==
    [][\A b \in Sessions, r \in Recs :
          (/\ response.op = "commit"
           /\ response.sid = b
           /\ response.status = "CONFLICT"
           /\ ConflictRecords(response.conflicts) = {r}
           /\ ResolveConflicts(b, OwnerOf[b], KeepTheirs(r)))
          => /\ response'.status = "OK"
             /\ sessions'[b].status = "committed"
             /\ records'[r].version = records[r].version + 1
             /\ \A k \in FieldKeys : records'[r][k] = records[r][k]]_vars
\* the operations of session s that a step changes
Toggled(s) ==
    {j \in DOMAIN operations[s] : operations'[s][j] # operations[s][j]}

\* C30: an undo that goes through targets the operation with the highest
\* sequence among those not undone, a redo the operation with the lowest
\* sequence among those undone; the call flips is_undone of that operation
\* and changes no other operation of any session.
C30_UndoRedoTargets ==
    [][(response'.op \in {"undo", "redo"} /\ response'.status = "OK")
       => LET s == response'.sid
              i == response'.sequence
              candidates == IF response'.op = "undo" THEN NotUndone(s)
                            ELSE Undone(s)
          IN /\ i \in candidates
             /\ response'.op = "undo" => \A j \in candidates : j <= i
             /\ response'.op = "redo" => \A j \in candidates : i <= j
             /\ DOMAIN operations'[s] = DOMAIN operations[s]
             /\ Toggled(s) = {i}
             /\ operations'[s][i] =
                   [operations[s][i] EXCEPT !.is_undone = ~@]
             /\ \A q \in Sessions \ {s} : operations'[q] = operations[q]]_vars

\* a redo of the older of two undone operations: the newer one stays undone
C30_Witness ==
    /\ response.op = "redo"
    /\ response.status = "OK"
    /\ response.sequence = 1
    /\ Len(operations[response.sid]) = 2
    /\ ~operations[response.sid][1].is_undone
    /\ operations[response.sid][2].is_undone
\* C31: undo on an active session with no operation left to undo, and
\* redo on an active session with no undone operation, fail with a
\* validation error and change no operation, record, message or session.
C31_NothingToToggle ==
    [][(response'.op \in {"undo", "redo"}
        /\ sessions[response'.sid].status = "active"
        /\ (IF response'.op = "undo" THEN NotUndone(response'.sid)
            ELSE Undone(response'.sid)) = {})
       => /\ response'.status = "VALIDATION"
          /\ UNCHANGED <<operations, records, messages, sessions, versions,
                         locks>>]_vars

\* an undo refused on a session whose operations are all undone already
C31_Witness ==
    /\ response.op = "undo"
    /\ response.status = "VALIDATION"
    /\ sessions[response.sid].status = "active"
    /\ Len(operations[response.sid]) = MaxOps
    /\ NotUndone(response.sid) = {}
\* C32: the operation log of a session is append-only with sequence
\* numbers 1..n in append order: a step adds at most one operation, at the
\* end, with the last sequence + 1, and only add_operation does; no step
\* removes or renumbers an operation; the only field of an existing
\* operation that changes is is_undone, and only of the operation an undo
\* or redo targets.
C32_LogAppendOnly ==
    [][\A s \in Sessions :
          LET old == operations[s]
              new == operations'[s]
          IN /\ Len(new) >= Len(old)
             /\ \A i \in DOMAIN new : new[i].sequence = i
             /\ \A i \in DOMAIN old :
                   /\ [new[i] EXCEPT !.is_undone = old[i].is_undone] = old[i]
                   /\ new[i] # old[i] =>
                         /\ response'.op \in {"undo", "redo"}
                         /\ response'.sid = s
                         /\ response'.sequence = i
             /\ Len(new) > Len(old) =>
                   /\ Len(new) = Len(old) + 1
                   /\ response'.op = "add_operation"
                   /\ response'.sid = s
                   /\ ~new[Len(new)].is_undone
                   /\ old # << >> =>
                         new[Len(new)].sequence = old[Len(old)].sequence + 1
             /\ response'.op \in {"undo", "redo"} => Len(new) = Len(old)]_vars

\* a second operation appended while the first is undone
C32_Witness ==
    /\ response.op = "add_operation"
    /\ response.status = "OK"
    /\ Len(operations[response.sid]) = 2
    /\ operations[response.sid][2].sequence = 2
    /\ operations[response.sid][1].is_undone
\* C33: a record_versions row, once written, is never modified and never
\* removed: every step leaves the rows of every record in place, in
\* order, and at most appends to them, unless the step is clear_history or
\* the hard deletion of the record.
C33_EntriesImmutable ==
    [][\A r \in Recs :
          \/ response'.op = "clear_history"
          \/ records[r].state = "live" /\ records'[r].state = "gone"
          \/ /\ Len(versions'[r]) >= Len(versions[r])
             /\ SubSeq(versions'[r], 1, Len(versions[r])) = versions[r]]_vars

\* a discard that hard-deleted one record and left the two rows of another
C33_Witness ==
    /\ response.op = "discard"
    /\ response.status = "OK"
    /\ \E r, q \in Recs :
          /\ records[r].state = "gone"
          /\ versions[r] = << >>
          /\ records[q].state = "live"
          /\ Len(versions[q]) = 2
\* C34: a rollback leaves as it is a record that has entries after the
\* marker, none at or before it, and whose earliest entry is not a create
\* (its history was cleared): its fields, deleted_at, version and entries
\* are unchanged and it is not among the restored records.
C34_RollbackSkipsCleared ==
    [][response'.op = "rollback_to_version"
       => \A r \in Recs :
             LET t == response'.changed_at
             IN (/\ records[r].state = "live"
                 /\ versions[r] # << >>
                 /\ \A i \in DOMAIN versions[r] : versions[r][i].changed_at > t
                 /\ \E i \in DOMAIN versions[r] :
                       /\ \A j \in DOMAIN versions[r] :
                             versions[r][i].changed_at
                                <= versions[r][j].changed_at
                       /\ versions[r][i].change_type # "create")
                => /\ records'[r] = records[r]
                   /\ versions'[r] = versions[r]
                   /\ r \notin response'.restored]_vars

\* a rollback to the creation of the second record, made after the history
\* was cleared and the first record updated, left the first record alone
C34_Witness ==
    /\ response.op = "rollback_to_version"
    /\ response.restored = {}
    /\ records["r1"].state = "live"
    /\ records["r1"].version = 2
    /\ Len(versions["r1"]) = 1
    /\ versions["r1"][1].change_type = "update"
    /\ versions["r1"][1].changed_at > response.changed_at
\* C35 as claimed: once a session is committed or discarded, no lock of
\* that session remains.
C35_LocksConsumed ==
    \A s \in Sessions :
        sessions[s].status \in {"committed", "discarded"}
        => \A r \in Recs : ~locks[s][r].present
\* C36: an undo or redo that goes through changes the version of no
\* record and appends no record_versions row, so the set of records that
\* check_conflicts reports for any session is the same after it as before.
C36_UndoRedoUnversioned ==
    [][(response'.op \in {"undo", "redo"} /\ response'.status = "OK")
       => /\ \A r \in Recs : records'[r].version = records[r].version
          /\ versions' = versions
          /\ \A s \in Sessions :
                Conflicting(locks[s])' = Conflicting(locks[s])]_vars

\* an undo took back the update of a record that another session has
\* drafted, and that session still has no conflict
C36_Witness ==
    /\ response.op = "undo"
    /\ response.status = "OK"
    /\ LET op == operations["s1"][response.sequence]
       IN /\ op.operation_type = "update"
          /\ op.before_snapshot.account # op.after_snapshot.account
          /\ records[op.record_id].account = op.before_snapshot.account
          /\ locks["s2"][op.record_id].present
          /\ sessions["s2"].status = "active"
          /\ Conflicting(locks["s2"]) = {}
\* C37 as claimed: in every state, a record_versions row whose version is
\* the current version of its record holds the record's current field
\* values and deletion status.
C37_AuditConsistent ==
    \A r \in Recs :
        records[r].state = "live" =>
            \A i \in DOMAIN versions[r] :
                versions[r][i].version = records[r].version
                => versions[r][i].snapshot = RecordToSnapshot(records[r])

\* records of the session's undone create operations that no standing
\* create operation of the session names
UndoneCreates(s) ==
    {r \in Recs :
        /\ \E i \in DOMAIN operations[s] :
              /\ operations[s][i].operation_type = "create"
              /\ operations[s][i].record_id = r
              /\ operations[s][i].is_undone
        /\ ~\E i \in DOMAIN operations[s] :
              /\ operations[s][i].operation_type = "create"
              /\ operations[s][i].record_id = r
              /\ ~operations[s][i].is_undone}

\* records a standing delete operation of the session names together with
\* a before_snapshot
StandingDeletes(s) ==
    {operations[s][i].record_id : i \in
        {j \in DOMAIN operations[s] :
            /\ operations[s][j].operation_type = "delete"
            /\ ~operations[s][j].is_undone
            /\ operations[s][j].before_snapshot # << >>}}

====
